---- MODULE Spec2Model ----
(***************************************************************************)
(* hsync: a resumable one-way directory mirroring tool.                    *)
(*                                                                         *)
(* The model follows src/src/db.rs (the index), src/src/scan.rs (scan and  *)
(* diff), src/src/pipeline.rs (producer and consumer threads around a      *)
(* bounded queue), src/src/cleanup.rs and src/src/lib.rs (run(): startup   *)
(* decision, retry loop, cleanup).                                         *)
(*                                                                         *)
(* Files are records [size, mtime]; the bytes of a file are derived from   *)
(* them (byte i of a file with mtime m is m * 10 + i), so that every       *)
(* version of a file has recognisable bytes at every position.             *)
(***************************************************************************)
EXTENDS Integers, Sequences, FiniteSets, TLC

\* ---------------------------------------------------------------- bounds
MaxSize == 3       \* largest source file, in bytes
MaxTime == 2       \* source mtimes are 1..MaxTime
MaxEvents == 1     \* events outside the program: source changes, I/O errors
MaxRuns == 2       \* invocations of run()
MaxRetry == 2      \* largest --retry-attempts
QueueCapacity == 1 \* --queue-capacity
MaxElapsed == 3    \* ticks of the clock that pass by themselves in an attempt

\* ------------------------------------------------------- program constants
BLOCK_SIZE == 2    \* pipeline.rs:17, scaled down from 5 MiB

Paths == {"a", "b"}
HashAlgorithms == {"Sha256"}
NowTime == 0       \* mtime the filesystem gives a file that was just written

SourcePath(p) == <<"source_dir", p>>
DestPath(p) == <<"dest_dir", p>>
RelativePath(sp) == sp[2]

Absent == [exists |-> FALSE, size |-> 0, mtime |-> 0]
\* the sizes a source file takes: empty, shorter than a block, and the
\* largest, which spans several blocks
Sizes == {0, 1, MaxSize}
SourceFiles == [exists : {TRUE}, size : Sizes, mtime : 1..MaxTime]

\* the bytes of a source file
Content(f) == [i \in 1..f.size |-> f.mtime * 10 + i]

Min(a, b) == IF a < b THEN a ELSE b
Max(a, b) == IF a > b THEN a ELSE b

\* ------------------------------------------------------------------ hashes
\* Option<String>: NULL is None, Some(d) a stored hex digest
NULL == [present |-> FALSE, digest |-> [algo |-> "", input |-> <<>>]]
Some(d) == [present |-> TRUE, digest |-> d]
EmptyString == [algo |-> "", input |-> <<>>]

\* create_hasher + update* + finalize_hex: the digest of the bytes fed so
\* far under the chosen algorithm (collision-free idealisation)
finalize_hex(algo, bytes) == [algo |-> algo, input |-> bytes]

VARIABLES
    src,            \* source tree: relative path -> file or Absent
    dst,            \* destination tree: relative path -> [exists, data, mtime]
    index,          \* table files: source_path -> row
    log,            \* audit log: set of lines
    call,           \* the last call made on the index (index-only spec)
    args,           \* Args of the current invocation of run()
    config,         \* what run() has parsed from them: the consumer's limit
    pc,             \* position of run()
    should_scan,    \* lib.rs:90 local of run()
    source_map,     \* scan.rs:68 snapshot of the source walk
    dest_map,       \* scan.rs:61 snapshot of the destination walk
    pending,        \* lib.rs:108 count returned by run_scan
    attempt,        \* lib.rs:142 loop counter
    last_error,     \* lib.rs:140
    skipped,        \* records the producer skipped in this invocation
    ppc,            \* position of the producer thread
    pending_files,  \* pipeline.rs:144 the backlog read by the producer
    meta,           \* pipeline.rs:182-193 fresh stat of the current record
    file,           \* pipeline.rs:231 open handle: the bytes it will read
    offset,         \* pipeline.rs:240
    sent,           \* history: the blocks sent for the current record
    queue,          \* lib.rs:171 bounded channel of blocks
    cpc,            \* position of the consumer thread
    block,          \* pipeline.rs:349 block being handled by the consumer
    elapsed,        \* pipeline.rs:346 start_time.elapsed(), in ticks
    total_bytes_written, \* pipeline.rs:347
    todo,           \* cleanup.rs:11 destination entries still to inspect
    eventsLeft,     \* source changes and I/O errors still to come
    runsLeft,       \* invocations still to come
    lastTime        \* the latest mtime a source file was given

fsVars == <<src, dst>>
scanVars == <<should_scan, source_map, dest_map, pending>>
loopVars == <<attempt, last_error>>
prodVars == <<ppc, pending_files, meta, file, offset, sent>>
gateVars == <<elapsed, total_bytes_written>>
consVars == <<cpc, block, gateVars>>
budgetVars == <<eventsLeft, runsLeft, lastTime>>
vars == <<src, dst, index, log, call, args, config, pc, scanVars, loopVars, skipped,
          prodVars, queue, consVars, todo, budgetVars>>

NoDest == [exists |-> FALSE, data |-> <<>>, mtime |-> 0]

\* the trees run() may find: source files of any size, and a destination
\* that has nothing at a path, a copy of the source file, or a file of its
\* own where the source has none
Mirror(f) == [exists |-> TRUE, data |-> Content(f), mtime |-> f.mtime]
InitialFile == [exists |-> TRUE, size |-> MaxSize, mtime |-> 1]
InitialSource == {Absent, InitialFile}
InitialDest == {NoDest, Mirror(InitialFile)}
NoCall == [op |-> "none"]

\* what a path holds at first: nothing, a destination file only, a source
\* file only, or both
TreeRank(s, d, p) == (IF s[p].exists THEN 2 ELSE 0) + (IF d[p].exists THEN 1 ELSE 0)

\* ------------------------------------------------------------------- index
Row(dest_path, modified, size, status, hash) ==
    [dest_path |-> dest_path, modified_date |-> modified, size |-> size,
     status |-> status, hash |-> hash]

HasRow(idx, sp) == sp \in DOMAIN idx

\* db.rs:88-96 SELECT hash WHERE source_path AND modified_date AND size
existing_hash_two_columns(idx, sp, modified, size) ==
    IF HasRow(idx, sp) /\ idx[sp].modified_date = modified
    THEN idx[sp].hash ELSE NULL

existing_hash(idx, sp, modified, size) ==
    IF HasRow(idx, sp) /\ idx[sp].modified_date = modified /\ idx[sp].size = size
    THEN idx[sp].hash ELSE NULL

\* db.rs:76-116 INSERT OR REPLACE with the preserved hash
upsert_file(idx, sp, dest_path, modified, size, status) ==
    [q \in DOMAIN idx \cup {sp} |->
        IF q = sp
        THEN Row(dest_path, modified, size, status,
                 existing_hash(idx, sp, modified, size))
        ELSE idx[q]]

\* db.rs:119-125 an UPDATE that sets the status and forgets the hash
mark_synced_no_hash(idx, sp, hash) ==
    [q \in DOMAIN idx |->
        IF q = sp THEN [idx[q] EXCEPT !.status = "synced"] ELSE idx[q]]

\* db.rs:119-125 an UPDATE without its WHERE clause
mark_synced_all(idx, sp, hash) ==
    [q \in DOMAIN idx |-> [idx[q] EXCEPT !.status = "synced", !.hash = Some(hash)]]

\* db.rs:119-125 an INSERT OR REPLACE where the code has an UPDATE
mark_synced_or_insert(idx, sp, hash) ==
    [q \in DOMAIN idx \cup {sp} |->
        IF q # sp THEN idx[q]
        ELSE IF HasRow(idx, sp)
        THEN [idx[q] EXCEPT !.status = "synced", !.hash = Some(hash)]
        ELSE Row(<<>>, 0, 0, "synced", Some(hash))]

\* db.rs:119-125 UPDATE ... WHERE source_path = ?1
mark_synced(idx, sp, hash) ==
    [q \in DOMAIN idx |->
        IF q = sp THEN [idx[q] EXCEPT !.status = "synced", !.hash = Some(hash)]
        ELSE idx[q]]

PendingRows(idx) == {q \in DOMAIN idx : idx[q].status = "pending"}

\* db.rs:128-135
pending_count(idx) == Cardinality(PendingRows(idx))

\* db.rs:141 SUM(size) over a set of rows, COALESCE(.., 0) for no row
RECURSIVE SumSize(_, _)
SumSize(idx, S) ==
    IF S = {} THEN 0
    ELSE LET q == CHOOSE x \in S : TRUE IN idx[q].size + SumSize(idx, S \ {q})

\* db.rs:138-145 the sum without its WHERE clause
pending_total_bytes_all_rows(idx) == SumSize(idx, DOMAIN idx)

\* db.rs:138-145
pending_total_bytes(idx) == SumSize(idx, PendingRows(idx))

EmptyIndex == [q \in {} |-> NULL]
EmptyMap == [q \in {} |-> <<0, 0>>]

\* lib.rs:40-42 --bwlimit, an Option<String>; strings are sequences of
\* characters
NoString == [present |-> FALSE, value |-> <<>>]
SomeString(s) == [present |-> TRUE, value |-> s]
\* lib.rs:57 the default of --block-size
DefaultBlockSize == <<"5", "M">>

NoArgs == [rescan |-> FALSE, delete_extras |-> FALSE, retry_attempts |-> 0,
           checksum |-> "", bwlimit |-> NoString, block_size |-> <<>>]
\* lib.rs:23-71 the arguments of run(), --bwlimit and --block-size left at
\* their defaults
ArgsSet == [rescan : BOOLEAN, delete_extras : BOOLEAN,
            retry_attempts : {0, 1, MaxRetry}, checksum : HashAlgorithms,
            bwlimit : {NoString}, block_size : {DefaultBlockSize}]
NoError == "none"
\* lib.rs:75-79 no limit: None
NoLimit == [present |-> FALSE, value |-> 0]
NoConfig == [bw_limit |-> NoLimit]
\* how a thread has ended: Ok(()), the error it returned, or a panic
ProducerResults == {"ok", "Failed to send block", "source read error"}
ConsumerResults == {"ok", "destination write error", "audit log write error",
                    "panicked"}
NoMeta == [mtime |-> 0, size |-> 0]
NoBlock == [data |-> <<>>, offset |-> 0, dest_path |-> <<>>, source_path |-> <<>>,
            mtime |-> 0, is_last_block |-> FALSE, file_hash |-> NULL,
            file_size |-> 0]

\* utils.rs:71-80 a line of the audit log: the literal pieces of the format
\* string and the rendered error, with the paths and hash it names
Line(msg, sp, dp, hash) ==
    [msg |-> msg, source_path |-> sp, dest_path |-> dp, hash |-> hash]
Contains(line, phrase) == \E i \in DOMAIN line.msg : line.msg[i] = phrase

\* no invocation is under way
InitRun ==
    /\ log = {}
    /\ call = NoCall
    /\ elapsed = 0
    /\ total_bytes_written = 0
    /\ args = NoArgs
    /\ config = NoConfig
    /\ pc = "idle"
    /\ should_scan = FALSE
    /\ source_map = EmptyMap
    /\ dest_map = EmptyMap
    /\ pending = 0
    /\ attempt = 0
    /\ last_error = NoError
    /\ skipped = FALSE
    /\ ppc = "off"
    /\ pending_files = <<>>
    /\ meta = NoMeta
    /\ file = <<>>
    /\ offset = 0
    /\ sent = <<>>
    /\ queue = <<>>
    /\ cpc = "off"
    /\ block = NoBlock
    /\ todo = {}
    /\ eventsLeft = MaxEvents
    /\ runsLeft = MaxRuns
    /\ lastTime = InitialFile.mtime

\* nothing has run yet
InitProgram ==
    /\ index = EmptyIndex
    /\ InitRun

Init ==
    /\ src \in [Paths -> InitialSource]
    /\ dst \in [Paths -> InitialDest]
    \* the paths are interchangeable: of two trees that differ only in which
    \* path holds what, one is taken
    /\ TreeRank(src, dst, "a") >= TreeRank(src, dst, "b")
    /\ InitProgram

\* a source tree with a zero-byte file, and a destination with an extra
EmptyFile == [exists |-> TRUE, size |-> 0, mtime |-> 1]
InitEmptyFile ==
    /\ src = [p \in Paths |-> IF p = "a" THEN EmptyFile ELSE Absent]
    /\ dst = [p \in Paths |-> IF p = "a" THEN NoDest ELSE Mirror(InitialFile)]
    /\ InitProgram

\* --------------------------------------------------------- environment
\* The source tree changes under other processes at any time.  A change to
\* a path is taken at the moments the program is about to look at that path
\* in the source (the walk of the scan, the stat and the open of the
\* producer, the live check of the cleanup): a change at any other moment
\* is seen by the program exactly as the same change at the next such
\* moment.  The live check of the cleanup looks at the existence of the
\* file only, so a rewrite of an existing file is not taken there.  The
\* program compares mtimes for equality only (scan.rs:226, db.rs:91), so
\* which number stands for a new mtime does not matter: a write gives the
\* file an mtime seen before or the next unused one.
EnvEnabled(p) ==
    \/ pc = "scan"
    \/ ppc \in {"stat", "open"} /\ RelativePath(Head(pending_files).source_path) = p
    \/ pc = "cleaning" /\ p \in todo

\* another process rewrites or creates a source file
EnvWrite(p, f) ==
    /\ eventsLeft > 0
    /\ EnvEnabled(p)
    /\ f # src[p]
    /\ f.mtime <= lastTime + 1
    /\ (pc = "cleaning" => ~src[p].exists)
    /\ src' = [src EXCEPT ![p] = f]
    /\ lastTime' = Max(lastTime, f.mtime)
    /\ eventsLeft' = eventsLeft - 1
    /\ UNCHANGED <<dst, index, log, call, args, config, pc, scanVars, loopVars, skipped,
                   prodVars, queue, consVars, todo, runsLeft>>

\* another process deletes a source file
EnvDelete(p) ==
    /\ eventsLeft > 0
    /\ EnvEnabled(p)
    /\ src[p].exists
    /\ src' = [src EXCEPT ![p] = Absent]
    /\ eventsLeft' = eventsLeft - 1
    /\ UNCHANGED <<dst, index, log, call, args, config, pc, scanVars, loopVars, skipped,
                   prodVars, queue, consVars, todo, runsLeft, lastTime>>

\* ------------------------------------------------------------------ run()
\* lib.rs:73-87 run() is called with its arguments
Invoke(a) ==
    /\ pc = "idle"
    /\ runsLeft > 0
    /\ runsLeft' = runsLeft - 1
    /\ args' = a
    /\ pc' = "startup"
    /\ skipped' = FALSE
    /\ last_error' = NoError
    /\ attempt' = 0
    /\ UNCHANGED <<fsVars, index, log, call, config, scanVars, prodVars, queue,
                   consVars, todo, eventsLeft, lastTime>>

\* ------------------------------------------------------- parse_bandwidth
\* utils.rs:9 str::trim
RECURSIVE trim_start(_)
trim_start(s) ==
    IF s # <<>> /\ Head(s) = " " THEN trim_start(Tail(s)) ELSE s
RECURSIVE trim_end(_)
trim_end(s) ==
    IF s # <<>> /\ s[Len(s)] = " "
    THEN trim_end(SubSeq(s, 1, Len(s) - 1)) ELSE s
trim(s) == trim_end(trim_start(s))

DigitChars == {"0", "1", "2", "3", "4", "5", "6", "7", "8", "9"}
DigitValue(c) == CHOOSE n \in 0..9 : ToString(n) = c
RECURSIVE digits_value(_)
digits_value(s) ==
    IF s = <<>> THEN 0
    ELSE 10 * digits_value(SubSeq(s, 1, Len(s) - 1)) + DigitValue(s[Len(s)])
RECURSIVE Pow10(_)
Pow10(n) == IF n = 0 THEN 1 ELSE 10 * Pow10(n - 1)

\* utils.rs:23-26 str::parse::<f64> on the decimal forms [sign] digits
\* [. [digits]] and [sign] . digits; the number is mantissa / 10^scale
NotANumber == [ok |-> FALSE, negative |-> FALSE, mantissa |-> 0, scale |-> 0]
parse_f64(s) ==
    LET signed == s # <<>> /\ Head(s) \in {"+", "-"}
        body == IF signed THEN Tail(s) ELSE s
        dots == {i \in DOMAIN body : body[i] = "."}
        dot == IF dots = {} THEN Len(body) + 1 ELSE CHOOSE i \in dots : TRUE
        int_part == SubSeq(body, 1, dot - 1)
        frac_part == SubSeq(body, dot + 1, Len(body))
    IN IF \/ \E i \in DOMAIN body : body[i] \notin DigitChars \cup {"."}
          \/ Cardinality(dots) > 1
          \/ Len(int_part) + Len(frac_part) = 0
       THEN NotANumber
       ELSE [ok |-> TRUE, negative |-> signed /\ Head(s) = "-",
             mantissa |-> digits_value(int_part \o frac_part),
             scale |-> Len(frac_part)]

Ok(v) == [ok |-> TRUE, value |-> v, error |-> ""]
Err(e) == [ok |-> FALSE, value |-> 0, error |-> e]

\* utils.rs:16-21
multiplier(c) ==
    IF c \in {"K", "k"} THEN 1024
    ELSE IF c \in {"M", "m"} THEN 1024 * 1024
    ELSE IF c \in {"G", "g"} THEN 1024 * 1024 * 1024
    ELSE 1

\* a parse that takes what it cannot read as 0
parse_bandwidth_lenient(str) ==
    LET s == trim(str)
        suffixed == s # <<>> /\ multiplier(s[Len(s)]) # 1
        num == parse_f64(trim(IF suffixed THEN SubSeq(s, 1, Len(s) - 1) ELSE s))
        mult == IF suffixed THEN multiplier(s[Len(s)]) ELSE 1
    IN IF ~num.ok \/ (num.negative /\ num.mantissa > 0) THEN Ok(0)
       ELSE Ok((2 * num.mantissa * mult + Pow10(num.scale))
                 \div (2 * Pow10(num.scale)))

\* utils.rs:8-38
parse_bandwidth(str) ==
    LET s == trim(str)
        suffixed == s # <<>> /\ multiplier(s[Len(s)]) # 1
        num == parse_f64(trim(IF suffixed THEN SubSeq(s, 1, Len(s) - 1) ELSE s))
        mult == IF suffixed THEN multiplier(s[Len(s)]) ELSE 1
        result == (2 * num.mantissa * mult + Pow10(num.scale))
                    \div (2 * Pow10(num.scale))
    IN IF s = <<>> THEN Err("Bandwidth value cannot be empty")
       ELSE IF ~num.ok THEN Err("Invalid bandwidth value")
       ELSE IF num.negative /\ num.mantissa > 0
       THEN Err("Bandwidth value cannot be negative")
       ELSE IF result = 0 /\ num.mantissa > 0
       THEN Err("Bandwidth value too small")
       ELSE Ok(result)

\* lib.rs:75-82 both strings parse
config_ok(a) ==
    /\ a.bwlimit.present => parse_bandwidth(a.bwlimit.value).ok
    /\ parse_bandwidth(a.block_size).ok

\* lib.rs:75-79 the limit handed to the consumer: None without --bwlimit
bw_limit(a) ==
    IF a.bwlimit.present
    THEN [present |-> TRUE, value |-> parse_bandwidth(a.bwlimit.value).value]
    ELSE NoLimit

\* lib.rs:82
block_size(a) == parse_bandwidth(a.block_size).value

\* lib.rs:75-82 a string does not parse: `?` returns the error from run()
ConfigError ==
    /\ pc = "startup"
    /\ ~config_ok(args)
    /\ pc' = "err"
    /\ UNCHANGED <<fsVars, index, log, call, args, config, scanVars, loopVars, skipped,
                   prodVars, queue, consVars, todo, budgetVars>>

\* lib.rs:90-104 the old behaviour: the scan gated on the backlog alone
should_scan_gated(rescan, count) == count = 0

\* lib.rs:90-104 a scan in every invocation
should_scan_always(rescan, count) == TRUE

\* lib.rs:90-104
should_scan_decision(rescan, count) ==
    IF rescan THEN TRUE ELSE IF count > 0 THEN FALSE ELSE TRUE

\* lib.rs:89-106
Startup ==
    /\ pc = "startup"
    /\ config_ok(args)
    /\ should_scan' = should_scan_decision(args.rescan, pending_count(index))
    /\ pc' = IF should_scan' THEN "scan" ELSE "loop"
    /\ attempt' = 1
    /\ config' = [bw_limit |-> bw_limit(args)]
    /\ UNCHANGED <<fsVars, index, log, call, args, source_map, dest_map, pending,
                   last_error, skipped, prodVars, queue, consVars, todo,
                   budgetVars>>

\* scan.rs:103-144 relative path -> (mtime, size) of every destination file
scan_destination(tree) ==
    [p \in {q \in Paths : tree[q].exists} |->
        [mtime |-> tree[p].mtime, size |-> Len(tree[p].data)]]

\* scan.rs:148-202 relative path -> (mtime, size) of every source file
scan_source(tree) ==
    [p \in {q \in Paths : tree[q].exists} |->
        [mtime |-> tree[p].mtime, size |-> tree[p].size]]

\* scan.rs:51-73 both walks
ScanWalk ==
    /\ pc = "scan"
    /\ source_map' = scan_source(src)
    /\ dest_map' = scan_destination(dst)
    /\ pc' = "compare"
    /\ UNCHANGED <<fsVars, index, log, call, args, config, should_scan, pending, loopVars,
                   skipped, prodVars, queue, consVars, todo, budgetVars>>

\* scan.rs:225-233 a diff that looks at the mtime only
diff_status_mtime_only(rel, sm, dm) ==
    IF rel \in DOMAIN dm /\ dm[rel].mtime = sm[rel].mtime
    THEN "synced" ELSE "pending"

\* scan.rs:225-233 a diff that accepts whatever the destination holds
diff_status_dest_exists(rel, sm, dm) ==
    IF rel \in DOMAIN dm THEN "synced" ELSE "pending"

\* scan.rs:225-233
diff_status(rel, sm, dm) ==
    IF rel \in DOMAIN dm /\ dm[rel].mtime = sm[rel].mtime
                         /\ dm[rel].size = sm[rel].size
    THEN "synced" ELSE "pending"

\* scan.rs:219-245 the loop over source_map
RECURSIVE populate(_, _, _, _)
populate(idx, rest, sm, dm) ==
    IF rest = {} THEN idx
    ELSE LET rel == CHOOSE r \in rest : TRUE IN
         populate(upsert_file(idx, SourcePath(rel), DestPath(rel),
                              sm[rel].mtime, sm[rel].size,
                              diff_status(rel, sm, dm)),
                  rest \ {rel}, sm, dm)

\* scan.rs:213,230 the counter compare_and_populate returns
pending_counter(sm, dm) ==
    Cardinality({rel \in DOMAIN sm : diff_status(rel, sm, dm) = "pending"})

\* scan.rs:206-251
ComparePopulate ==
    /\ pc = "compare"
    /\ index' = populate(index, DOMAIN source_map, source_map, dest_map)
    /\ pending' = pending_counter(source_map, dest_map)
    /\ pc' = "scanned"
    /\ UNCHANGED <<fsVars, log, call, args, config, should_scan, source_map, dest_map,
                   loopVars, skipped, prodVars, queue, consVars, todo, budgetVars>>

\* lib.rs:110-127 after the scan: return early when it counted nothing
AfterScan ==
    /\ pc = "scanned"
    /\ pc' = IF pending = 0
             THEN (IF args.delete_extras THEN "cleanup" ELSE "ok")
             ELSE "loop"
    /\ source_map' = EmptyMap
    /\ dest_map' = EmptyMap
    /\ UNCHANGED <<fsVars, index, log, call, args, config, should_scan, pending, loopVars,
                   skipped, prodVars, queue, consVars, todo, budgetVars>>

\* lib.rs:142 for attempt in 1..=retry_attempts, with one attempt too many
loop_continues_once_more(attempt_no, retry_attempts) == attempt_no <= retry_attempts + 1

\* lib.rs:142 for attempt in 1..=retry_attempts
loop_continues(attempt_no, retry_attempts) == attempt_no <= retry_attempts

\* lib.rs:171-185 a fresh bounded channel, the producer and the consumer
Spawn ==
    /\ pc' = "running"
    /\ ppc' = "init"
    /\ cpc' = "recv"
    /\ queue' = <<>>
    /\ elapsed' = 0
    /\ total_bytes_written' = 0

\* lib.rs:142-185 head of the retry loop: stop when the budget is used up or
\* the backlog is empty, else spawn producer and consumer on a fresh queue
LoopHead ==
    /\ pc = "loop"
    /\ IF ~loop_continues(attempt, args.retry_attempts) \/ pending_count(index) = 0
       THEN /\ pc' = "after_loop"
            /\ UNCHANGED <<ppc, cpc, queue, log, gateVars>>
       ELSE IF attempt > 1
       THEN /\ pc' = "sleep"
            /\ log' = log \cup {Line(<<"Retry attempt", ToString(attempt),
                                        ToString(args.retry_attempts), last_error,
                                        "before retry">>, <<>>, <<>>, NULL)}
            /\ UNCHANGED <<ppc, cpc, queue, gateVars>>
       ELSE /\ Spawn
            /\ log' = log
    /\ UNCHANGED <<fsVars, index, call, args, config, scanVars, loopVars, skipped,
                   pending_files, meta, file, offset, sent, block, todo, budgetVars>>

\* lib.rs:168 thread::sleep(retry_interval_seconds) is over: the attempt starts
RetrySleep ==
    /\ pc = "sleep"
    /\ Spawn
    /\ UNCHANGED <<fsVars, index, log, call, args, config, scanVars, loopVars, skipped,
                   pending_files, meta, file, offset, sent, block, todo, budgetVars>>

\* lib.rs:191-201 a match that looks at the producer's result only
attempt_error_producer_only(producer_result, consumer_result) ==
    IF producer_result = "ok" THEN NoError ELSE producer_result

\* lib.rs:191-201 the error kept from the two thread results
attempt_error(producer_result, consumer_result) ==
    IF producer_result = "ok" /\ consumer_result = "ok" THEN NoError
    ELSE IF producer_result # "ok" THEN producer_result
    ELSE consumer_result

\* lib.rs:187-206 join both threads, record the error, decide on a retry;
\* join().unwrap() on a thread that panicked panics in run()
Join ==
    /\ pc = "running"
    /\ ppc \in ProducerResults
    /\ cpc \in ConsumerResults
    /\ IF cpc = "panicked"
       THEN /\ pc' = "panic"
            /\ UNCHANGED <<last_error, attempt>>
       ELSE /\ last_error' = attempt_error(ppc, cpc)
            /\ IF last_error' = NoError
               THEN pc' = "after_loop" /\ attempt' = attempt
               ELSE pc' = "loop" /\ attempt' = attempt + 1
    /\ ppc' = "off"
    /\ cpc' = "off"
    /\ elapsed' = 0
    /\ total_bytes_written' = 0
    /\ queue' = <<>>
    /\ pending_files' = <<>>
    /\ UNCHANGED <<fsVars, index, log, call, args, config, scanVars, skipped, meta, file,
                   offset, sent, block, todo, budgetVars>>

\* lib.rs:209-231 with the cleanup ahead of the check for a failed transfer
AfterLoopCleanupFirst ==
    /\ pc = "after_loop"
    /\ pc' = IF args.delete_extras THEN "cleanup" ELSE "ok"
    /\ log' = log
    /\ UNCHANGED <<fsVars, index, call, args, config, scanVars, loopVars, skipped,
                   prodVars, queue, consVars, todo, budgetVars>>

\* lib.rs:209-231 fail when the last attempt erred and a backlog is left,
\* else go on to cleanup or return
AfterLoop ==
    /\ pc = "after_loop"
    /\ IF last_error # NoError /\ pending_count(index) > 0
       THEN /\ pc' = "err"
            /\ log' = log \cup {Line(<<"Transfer failed after",
                                       ToString(args.retry_attempts),
                                       "attempts:", last_error>>,
                                     <<>>, <<>>, NULL)}
       ELSE /\ pc' = IF args.delete_extras THEN "cleanup" ELSE "ok"
            /\ log' = log
    /\ UNCHANGED <<fsVars, index, call, args, config, scanVars, loopVars, skipped,
                   prodVars, queue, consVars, todo, budgetVars>>

\* cleanup.rs:11 the walk of the destination tree starts
CleanupWalk ==
    /\ pc = "cleanup"
    /\ todo' = {p \in Paths : dst[p].exists}
    /\ pc' = "cleaning"
    /\ UNCHANGED <<fsVars, index, log, call, args, config, scanVars, loopVars, skipped,
                   prodVars, queue, consVars, budgetVars>>

\* an index lookup in place of the live check
source_exists_in_index(tree, p) == HasRow(index, SourcePath(p))

\* cleanup.rs:19-22 source_path.exists(), the live check against the source
source_exists(tree, p) == tree[p].exists

\* a sweep that also drops the index row of the file it deletes
CleanupEntryDroppingRow(p) ==
    /\ pc = "cleaning"
    /\ p \in todo
    /\ todo' = todo \ {p}
    /\ IF ~source_exists(src, p)
       THEN /\ dst' = [dst EXCEPT ![p] = NoDest]
            /\ log' = log \cup {Line(<<"Deleted extra:">>, <<>>, DestPath(p), NULL)}
            /\ index' = [q \in DOMAIN index \ {SourcePath(p)} |-> index[q]]
       ELSE UNCHANGED <<dst, log, index>>
    /\ UNCHANGED <<src, call, args, config, pc, scanVars, loopVars, skipped,
                   prodVars, queue, consVars, budgetVars>>

\* cleanup.rs:17-35 one destination file is inspected against the live source
CleanupEntry(p) ==
    /\ pc = "cleaning"
    /\ p \in todo
    /\ todo' = todo \ {p}
    /\ IF ~source_exists(src, p)
       THEN /\ dst' = [dst EXCEPT ![p] = NoDest]
            /\ log' = log \cup {Line(<<"Deleted extra:">>, <<>>, DestPath(p), NULL)}
       ELSE UNCHANGED <<dst, log>>
    /\ UNCHANGED <<src, index, call, args, config, pc, scanVars, loopVars, skipped,
                   prodVars, queue, consVars, budgetVars>>

\* cleanup.rs:11-12 the walk yields an error for an entry: `entry?` returns it
CleanupWalkFail(p) ==
    /\ pc = "cleaning"
    /\ p \in todo
    /\ eventsLeft > 0
    /\ eventsLeft' = eventsLeft - 1
    /\ todo' = {}
    /\ pc' = "err"
    /\ UNCHANGED <<fsVars, index, log, call, args, config, scanVars, loopVars, skipped,
                   prodVars, queue, consVars, runsLeft, lastTime>>

\* cleanup.rs:27-29 remove_file fails: the failure is logged, the walk goes on
CleanupDeleteFail(p) ==
    /\ pc = "cleaning"
    /\ p \in todo
    /\ ~source_exists(src, p)
    /\ eventsLeft > 0
    /\ eventsLeft' = eventsLeft - 1
    /\ todo' = todo \ {p}
    /\ log' = log \cup {Line(<<"Failed to delete extra:">>, <<>>, DestPath(p), NULL)}
    /\ UNCHANGED <<fsVars, index, call, args, config, pc, scanVars, loopVars, skipped,
                   prodVars, queue, consVars, runsLeft, lastTime>>

\* cleanup.rs:32 the file is removed, logger.log fails and `?` returns the error
CleanupLogFail(p) ==
    /\ pc = "cleaning"
    /\ p \in todo
    /\ ~source_exists(src, p)
    /\ eventsLeft > 0
    /\ eventsLeft' = eventsLeft - 1
    /\ dst' = [dst EXCEPT ![p] = NoDest]
    /\ todo' = {}
    /\ pc' = "err"
    /\ UNCHANGED <<src, index, log, call, args, config, scanVars, loopVars, skipped,
                   prodVars, queue, consVars, runsLeft, lastTime>>

\* cleanup.rs:38-39
CleanupDone ==
    /\ pc = "cleaning"
    /\ todo = {}
    /\ pc' = "ok"
    /\ UNCHANGED <<fsVars, index, log, call, args, config, scanVars, loopVars, skipped,
                   prodVars, queue, consVars, todo, budgetVars>>

\* lib.rs:125,221,230 run() has returned or panicked; the process ends
Return ==
    /\ pc \in {"ok", "err", "panic", "killed"}
    /\ pc' = "idle"
    /\ args' = NoArgs
    /\ config' = NoConfig
    /\ should_scan' = FALSE
    /\ pending' = 0
    /\ attempt' = 0
    /\ last_error' = NoError
    /\ skipped' = FALSE
    /\ meta' = NoMeta
    /\ file' = <<>>
    /\ offset' = 0
    /\ sent' = <<>>
    /\ block' = NoBlock
    /\ UNCHANGED <<fsVars, index, log, call, source_map, dest_map, ppc,
                   pending_files, queue, cpc, gateVars, todo, budgetVars>>

\* --------------------------------------------------------------- producer
\* db.rs:148-174 the pending rows in some order
Orderings(S) ==
    {f \in [1..Cardinality(S) -> S] : \A i, j \in DOMAIN f : f[i] = f[j] => i = j}

FileRecord(idx, sp) == [source_path |-> sp, dest_path |-> idx[sp].dest_path]

\* db.rs:148-174 the SELECT without WHERE status = 'pending'
get_all_files(idx) ==
    {[i \in DOMAIN f |-> FileRecord(idx, f[i])] : f \in Orderings(DOMAIN idx)}

get_pending_files(idx) ==
    {[i \in DOMAIN f |-> FileRecord(idx, f[i])] : f \in Orderings(PendingRows(idx))}

\* std::io::Error as Display renders it
NotFoundText == "No such file or directory (os error 2)"

\* pipeline.rs:143-156 read the backlog; nothing to do when it is empty
ProducerInit ==
    /\ ppc = "init"
    /\ \E files \in get_pending_files(index) :
        /\ pending_files' = files
        /\ ppc' = IF files = <<>> THEN "ok" ELSE "stat"
    /\ UNCHANGED <<fsVars, index, log, call, args, config, pc, scanVars, loopVars, skipped,
                   meta, file, offset, sent, queue, consVars, todo, budgetVars>>

\* pipeline.rs:172,329 the for loop moves to the next record, or the
\* producer returns Ok and drops the sender
NextRecord ==
    /\ pending_files' = Tail(pending_files)
    /\ ppc' = IF Tail(pending_files) = <<>> THEN "ok" ELSE "stat"
    /\ meta' = NoMeta
    /\ file' = <<>>
    /\ offset' = 0
    /\ sent' = <<>>

\* a producer that gives up with the error instead of skipping the record
SkipAsError(line) ==
    /\ log' = log \cup {line}
    /\ skipped' = TRUE
    /\ ppc' = "source read error"
    /\ UNCHANGED <<pending_files, meta, file, offset, sent>>

\* pipeline.rs:184-187,233-236 log the skip and continue with the next record
Skip(line) ==
    /\ log' = log \cup {line}
    /\ skipped' = TRUE
    /\ NextRecord

\* pipeline.rs:182-193 fresh metadata, or a logged skip
ProducerStat ==
    /\ ppc = "stat"
    /\ LET sp == Head(pending_files).source_path
           f == src[RelativePath(sp)] IN
       IF f.exists
       THEN /\ meta' = [mtime |-> f.mtime, size |-> f.size]
            /\ ppc' = "open"
            /\ UNCHANGED <<log, skipped, pending_files, file, offset, sent>>
       ELSE Skip(Line(<<"Skipping (read error):", "-", NotFoundText>>,
                      sp, <<>>, NULL))
    /\ UNCHANGED <<fsVars, index, call, args, config, pc, scanVars, loopVars, queue,
                   consVars, todo, budgetVars>>

\* pipeline.rs:231-242 open the source, or a logged skip
ProducerOpen ==
    /\ ppc = "open"
    /\ LET sp == Head(pending_files).source_path
           f == src[RelativePath(sp)] IN
       IF f.exists
       THEN /\ file' = Content(f)
            /\ offset' = 0
            /\ sent' = <<>>
            /\ ppc' = "read"
            /\ UNCHANGED <<log, skipped, pending_files, meta>>
       ELSE Skip(Line(<<"Skipping (open error):", "-", NotFoundText>>,
                      sp, <<>>, NULL))
    /\ UNCHANGED <<fsVars, index, call, args, config, pc, scanVars, loopVars, queue,
                   consVars, todo, budgetVars>>

\* a block taken for the last one when the read came back short
is_last_short_read(off, bytes_read, size) == bytes_read < BLOCK_SIZE

\* pipeline.rs:300
is_last(off, bytes_read, size) == (off + bytes_read) = size

\* pipeline.rs:249-261,307-319
Block(data, off, rec, m, last, hash, size) ==
    [data |-> data, offset |-> off, dest_path |-> rec.dest_path,
     source_path |-> rec.source_path, mtime |-> m.mtime, is_last_block |-> last,
     file_hash |-> hash, file_size |-> size]

\* a send into a queue without a bound
send_unbounded(b, after_ok) ==
    IF cpc \in ConsumerResults
    THEN /\ ppc' = "Failed to send block"
         /\ UNCHANGED <<queue, pending_files, meta, file, offset, sent>>
    ELSE /\ queue' = Append(queue, b)
         /\ after_ok

\* a send that does not notice that the receiver is gone
send_ignoring_disconnect(b, after_ok) ==
    /\ Len(queue) < QueueCapacity
    /\ queue' = Append(queue, b)
    /\ after_ok

\* pipeline.rs:262,321 sender.send: fails once the receiver is gone, waits
\* while the queue is full
Send(b, after_ok) ==
    IF cpc \in ConsumerResults
    THEN /\ ppc' = "Failed to send block"
         /\ UNCHANGED <<queue, pending_files, meta, file, offset, sent>>
    ELSE /\ Len(queue) < QueueCapacity
         /\ queue' = Append(queue, b)
         /\ after_ok

\* a hasher created anew for every block
hasher_update_fresh(hashed, chunk_data) == chunk_data

\* pipeline.rs:239,297 the bytes the hasher has been fed: those of the blocks
\* before and this chunk
hasher_update(hashed, chunk_data) == hashed \o chunk_data

\* an end of file that never sends a block
is_empty_file_never(size) == FALSE

\* pipeline.rs:246-248 at the end of the file: the empty file case
is_empty_file(size) == size = 0

\* pipeline.rs:244-327 one turn of the block loop: read, hash, send
ProducerRead ==
    /\ ppc = "read"
    /\ LET rec == Head(pending_files)
           bytes_read == Min(BLOCK_SIZE, Len(file) - offset)
           chunk_data == SubSeq(file, offset + 1, offset + bytes_read)
           hashed == hasher_update(SubSeq(file, 1, offset), chunk_data)
           last == is_last(offset, bytes_read, meta.size)
           b == Block(chunk_data, offset, rec, meta, last,
                      IF last THEN Some(finalize_hex(args.checksum, hashed))
                      ELSE NULL,
                      meta.size) IN
       IF bytes_read = 0
       THEN IF is_empty_file(meta.size)
            THEN Send(Block(<<>>, 0, rec, meta, TRUE,
                            Some(finalize_hex(args.checksum, hashed)), 0),
                      NextRecord)
            ELSE NextRecord /\ UNCHANGED queue
       ELSE Send(b,
                 IF last THEN NextRecord
                 ELSE /\ offset' = offset + bytes_read
                      /\ sent' = Append(sent, b)
                      /\ UNCHANGED <<ppc, pending_files, meta, file>>)
    /\ UNCHANGED <<fsVars, index, log, call, args, config, pc, scanVars, loopVars, skipped,
                   consVars, todo, budgetVars>>

\* pipeline.rs:245 file.read fails: the producer returns the error
ProducerReadFail ==
    /\ ppc = "read"
    /\ eventsLeft > 0
    /\ eventsLeft' = eventsLeft - 1
    /\ ppc' = "source read error"
    /\ UNCHANGED <<fsVars, index, log, call, args, config, pc, scanVars, loopVars, skipped,
                   pending_files, meta, file, offset, sent, queue, consVars, todo,
                   runsLeft, lastTime>>

\* --------------------------------------------------------------- consumer
\* pipeline.rs:349 recv: the next block, or the end once the sender is gone
\* and the queue is drained
ConsumerRecv ==
    /\ cpc = "recv"
    /\ IF queue # <<>>
       THEN /\ block' = Head(queue)
            /\ queue' = Tail(queue)
            /\ cpc' = "write"
       ELSE /\ ppc \in ProducerResults
            /\ cpc' = "ok"
            /\ UNCHANGED <<block, queue>>
    /\ UNCHANGED <<fsVars, index, log, call, args, config, pc, scanVars, loopVars, skipped,
                   prodVars, todo, budgetVars,
                   gateVars>>

\* a consumer that marks the record synced before it restores the times
consumer_next_mark_first(at, last) ==
    IF at = "write" THEN (IF last THEN "mark" ELSE "recv")
    ELSE IF at = "mark" THEN "times"
    ELSE IF at = "times" THEN "audit"
    ELSE "recv"

\* pipeline.rs:349-400 the order of the consumer's steps on one block: write;
\* for the last block of a file set_file_times, mark_synced, logger.log
consumer_next(at, last) ==
    IF at = "write" THEN (IF last THEN "times" ELSE "recv")
    ELSE IF at = "times" THEN "mark"
    ELSE IF at = "mark" THEN "audit"
    ELSE "recv"

\* an open that truncates whatever the offset
open_dest_truncate_always(f, off) ==
    [exists |-> TRUE, data |-> <<>>, mtime |-> NowTime]

\* pipeline.rs:354-362 open with create, and truncate iff offset == 0
open_dest(f, off) ==
    IF f.exists /\ off # 0 THEN [f EXCEPT !.mtime = NowTime]
    ELSE [exists |-> TRUE, data |-> <<>>, mtime |-> NowTime]

\* pipeline.rs:364-365 seek to the offset and write the payload there
write_at(base, off, data) ==
    [i \in 1..Max(Len(base), off + Len(data)) |->
        IF i > off /\ i <= off + Len(data) THEN data[i - off]
        ELSE IF i <= Len(base) THEN base[i] ELSE 0]

\* the ticks of a second: the resolution of Duration, a nanosecond in the
\* code
TicksPerSecond == 2

\* pipeline.rs:371-372 Duration::from_secs_f64(total as f64 / limit as f64):
\* the quotient in ticks, truncated or rounded to the nearest tick (ties to
\* even), as the version of the standard library has it
expected_duration(total, limit) ==
    LET num == total * TicksPerSecond
        q == num \div limit
        r2 == 2 * (num % limit) IN
    {q, IF r2 > limit \/ (r2 = limit /\ q % 2 = 1) THEN q + 1 ELSE q}

\* a gate that never sleeps
gate_without_sleep(el, total, limit) == {el}

\* pipeline.rs:370-377 the time elapsed after the gate: with a limit, when
\* the expected duration is above the elapsed time, the thread sleeps the
\* difference
gate(el, total, limit) ==
    IF ~limit.present \/ limit.value = 0 THEN {el}
    ELSE {IF d > el THEN d ELSE el : d \in expected_duration(total, limit.value)}

\* a gate that treats a limit of 0 as no limit
gate_panics_never(limit) == FALSE

\* pipeline.rs:370-377 the bandwidth gate: with a limit of 0 the expected
\* duration is bytes / 0.0, infinite or NaN, and Duration::from_secs_f64
\* panics on either
gate_panics(limit) == limit.present /\ limit.value = 0

\* pipeline.rs:350-377 the block is written to the destination file, then
\* the bandwidth gate
ConsumerWrite ==
    /\ cpc = "write"
    /\ LET p == RelativePath(block.dest_path)
           opened == open_dest(dst[p], block.offset) IN
       dst' = [dst EXCEPT ![p] =
                  [opened EXCEPT !.data = write_at(opened.data, block.offset,
                                                   block.data)]]
    /\ total_bytes_written' = total_bytes_written + Len(block.data)
    /\ elapsed' \in gate(elapsed, total_bytes_written', config.bw_limit)
    /\ cpc' = IF gate_panics(config.bw_limit) THEN "panicked"
              ELSE consumer_next("write", block.is_last_block)
    /\ block' = IF cpc' \in {"recv", "panicked"} THEN NoBlock ELSE block
    /\ UNCHANGED <<src, index, log, call, args, config, pc, scanVars, loopVars, skipped,
                   prodVars, queue, todo, budgetVars>>

\* pipeline.rs:351,362-365 create_dir_all, open, seek or write fails: the
\* consumer returns the error, with the file opened already or not
ConsumerWriteFail ==
    /\ cpc = "write"
    /\ eventsLeft > 0
    /\ eventsLeft' = eventsLeft - 1
    /\ \E was_opened \in BOOLEAN :
        LET p == RelativePath(block.dest_path) IN
        dst' = IF was_opened
               THEN [dst EXCEPT ![p] = open_dest(dst[p], block.offset)]
               ELSE dst
    /\ cpc' = "destination write error"
    /\ block' = NoBlock
    /\ UNCHANGED <<src, index, log, call, args, config, pc, scanVars, loopVars, skipped,
                   prodVars, queue, todo, runsLeft, lastTime,
                   gateVars>>

\* pipeline.rs:379-383 restore the source times on the destination
ConsumerSetTimes ==
    /\ cpc = "times"
    /\ LET p == RelativePath(block.dest_path) IN
       dst' = [dst EXCEPT ![p].mtime = block.mtime]
    /\ cpc' = consumer_next("times", TRUE)
    /\ UNCHANGED <<src, index, log, call, args, config, pc, scanVars, loopVars, skipped,
                   prodVars, queue, block, todo, budgetVars,
                   gateVars>>

\* pipeline.rs:381-383 set_file_times fails: the consumer returns the error
\* before mark_synced
ConsumerSetTimesFail ==
    /\ cpc = "times"
    /\ eventsLeft > 0
    /\ eventsLeft' = eventsLeft - 1
    /\ cpc' = "destination write error"
    /\ block' = NoBlock
    /\ UNCHANGED <<fsVars, index, log, call, args, config, pc, scanVars, loopVars, skipped,
                   prodVars, queue, todo, runsLeft, lastTime,
                   gateVars>>

\* pipeline.rs:385-390 mark the record synced with the block's hash
ConsumerMarkSynced ==
    /\ cpc = "mark"
    /\ index' = mark_synced(index, block.source_path,
                            IF block.file_hash.present
                            THEN block.file_hash.digest ELSE EmptyString)
    /\ cpc' = consumer_next("mark", TRUE)
    /\ UNCHANGED <<fsVars, log, call, args, config, pc, scanVars, loopVars, skipped,
                   prodVars, queue, block, todo, budgetVars,
                   gateVars>>

\* pipeline.rs:392-398 the audit entry
ConsumerAudit ==
    /\ cpc = "audit"
    /\ log' = log \cup {Line(<<"Transferred:", "->", "(Hash:", ")">>,
                             block.source_path, block.dest_path, block.file_hash)}
    /\ cpc' = consumer_next("audit", TRUE)
    /\ block' = IF cpc' = "recv" THEN NoBlock ELSE block
    /\ UNCHANGED <<fsVars, index, call, args, config, pc, scanVars, loopVars, skipped,
                   prodVars, queue, todo, budgetVars,
                   gateVars>>

\* pipeline.rs:393-398 logger.log fails: the consumer returns the error,
\* after the record was marked synced
ConsumerAuditFail ==
    /\ cpc = "audit"
    /\ eventsLeft > 0
    /\ eventsLeft' = eventsLeft - 1
    /\ cpc' = "audit log write error"
    /\ block' = NoBlock
    /\ UNCHANGED <<fsVars, index, log, call, args, config, pc, scanVars, loopVars, skipped,
                   prodVars, queue, todo, runsLeft, lastTime,
                   gateVars>>

\* time passes while the consumer of an attempt with a limit runs
Tick ==
    /\ pc = "running"
    /\ config.bw_limit.present
    /\ cpc \notin ConsumerResults
    /\ elapsed < MaxElapsed
    /\ elapsed' = elapsed + 1
    /\ UNCHANGED <<fsVars, index, log, call, args, config, pc, scanVars, loopVars,
                   skipped, prodVars, queue, cpc, block, total_bytes_written, todo,
                   budgetVars>>

\* every step but the call of run()
Step ==
    \/ \E p \in Paths, f \in SourceFiles : EnvWrite(p, f)
    \/ \E p \in Paths : EnvDelete(p)
    \/ Startup
    \/ ScanWalk
    \/ ComparePopulate
    \/ AfterScan
    \/ LoopHead
    \/ RetrySleep
    \/ Join
    \/ AfterLoop
    \/ CleanupWalk
    \/ \E p \in Paths : CleanupEntry(p)
    \/ \E p \in Paths : CleanupWalkFail(p)
    \/ \E p \in Paths : CleanupDeleteFail(p)
    \/ \E p \in Paths : CleanupLogFail(p)
    \/ CleanupDone
    \/ Return
    \/ ProducerInit
    \/ ProducerStat
    \/ ProducerOpen
    \/ ProducerRead
    \/ ProducerReadFail
    \/ ConsumerRecv
    \/ ConsumerWrite
    \/ ConsumerWriteFail
    \/ ConsumerSetTimes
    \/ ConsumerSetTimesFail
    \/ ConsumerMarkSynced
    \/ ConsumerAudit
    \/ ConsumerAuditFail

Next ==
    \/ \E a \in ArgsSet : Invoke(a)
    \/ Step

Spec == Init /\ [][Next]_vars

\* every invocation is made without --rescan
NextNoRescan ==
    \/ \E a \in {x \in ArgsSet : ~x.rescan} : Invoke(a)
    \/ Step

SpecNoRescan == Init /\ [][NextNoRescan]_vars

\* scan.rs:206-251, pipeline.rs:379-391 the state an earlier invocation
\* leaves behind when it scanned the source, a and perhaps b, was interrupted
\* after it had written a and restored its times and before mark_synced,
\* and a was deleted from the source while b was created, deleted or left
\* alone: the records are pending, a's source file does not exist and its
\* copy is in the destination
ScannedTrees == {t \in [Paths -> InitialSource] : t["a"].exists}
InitGhost ==
    /\ \E t \in ScannedTrees, f \in InitialSource :
         /\ src = [p \in Paths |-> IF p = "a" THEN Absent ELSE f]
         /\ index = populate(EmptyIndex, {p \in Paths : t[p].exists},
                             scan_source(t), EmptyMap)
    /\ dst = [p \in Paths |-> IF p = "a" THEN Mirror(InitialFile) ELSE NoDest]
    /\ InitRun
SpecGhost == InitGhost /\ [][NextNoRescan]_vars

\* the runs start from a source tree that holds a zero-byte file
SpecEmptyFile == InitEmptyFile /\ [][Next]_vars

\* the runs start from one source file of any size around the block size,
\* and are given the same arguments
BoundarySizes == 0..(2 * BLOCK_SIZE + 1)
InitSizes ==
    /\ \E n \in BoundarySizes :
         src = [p \in Paths |-> IF p = "a"
                                THEN [exists |-> TRUE, size |-> n, mtime |-> 1]
                                ELSE Absent]
    /\ dst = [p \in Paths |-> IF p = "a" THEN NoDest ELSE Mirror(InitialFile)]
    /\ InitProgram
ArgsSetSizes ==
    [rescan : {FALSE}, delete_extras : {TRUE}, retry_attempts : {MaxRetry},
     checksum : HashAlgorithms, bwlimit : {NoString},
     block_size : {DefaultBlockSize}]
NextSizes ==
    \/ \E a \in ArgsSetSizes : Invoke(a)
    \/ Step
SpecSizes == InitSizes /\ [][NextSizes]_vars

\* ------------------------------------------- the pipeline's two threads
\* lib.rs:40-42 the runs are made without --bwlimit or with a limit of 0
ZeroLimit == SomeString(<<"0">>)
ArgsSetPipeline ==
    [rescan : {FALSE}, delete_extras : {TRUE}, retry_attempts : {MaxRetry},
     checksum : HashAlgorithms, bwlimit : {NoString, ZeroLimit},
     block_size : {DefaultBlockSize}]
\* the runs start from one source file: an empty one, or one of three
\* blocks, which fills the queue
PipelineSizes == {0, 2 * BLOCK_SIZE + 1}
InitPipeline ==
    /\ InitSizes
    /\ src["a"].size \in PipelineSizes
NextPipeline ==
    \/ \E a \in ArgsSetPipeline : Invoke(a)
    \/ Step
\* pipeline.rs:133-338 the steps of the producer thread that are no fault
ProducerStep == ProducerInit \/ ProducerStat \/ ProducerOpen \/ ProducerRead
\* pipeline.rs:340-402 the steps of the consumer thread that are no fault
ConsumerStep ==
    \/ ConsumerRecv
    \/ ConsumerWrite
    \/ ConsumerSetTimes
    \/ ConsumerMarkSynced
    \/ ConsumerAudit
\* lib.rs:176-188 the operating system schedules each spawned thread and
\* the joining main thread: a thread that can take a step takes one
SpecPipeline ==
    /\ InitPipeline
    /\ [][NextPipeline]_vars
    /\ WF_vars(ProducerStep)
    /\ WF_vars(ConsumerStep)
    /\ WF_vars(Join)
    /\ WF_vars(LoopHead)
    /\ WF_vars(RetrySleep)

\* ------------------------------------- the process is interrupted
\* pipeline.rs:349-400 the process is killed while the pipeline runs: both
\* threads and the queue are gone; the destination files and the index
\* stay as the consumer's completed writes and mark_synced calls left them
Crash ==
    /\ pc = "running"
    /\ pc' = "killed"
    /\ ppc' = "off"
    /\ cpc' = "off"
    /\ queue' = <<>>
    /\ pending_files' = <<>>
    /\ elapsed' = 0
    /\ total_bytes_written' = 0
    /\ UNCHANGED <<fsVars, index, log, call, args, config, scanVars, loopVars, skipped,
                   meta, file, offset, sent, block, todo, budgetVars>>

\* ------------------------------------------------ the bandwidth gate
\* lib.rs:40-42 the runs are made without --bwlimit or with 3 bytes/sec,
\* from one source file of two blocks
ArgsSetGate ==
    [rescan : {FALSE}, delete_extras : {TRUE}, retry_attempts : {MaxRetry},
     checksum : HashAlgorithms, bwlimit : {NoString, SomeString(<<"3">>)},
     block_size : {DefaultBlockSize}]
InitGate ==
    /\ InitSizes
    /\ src["a"].size = BLOCK_SIZE + 1
NextGate ==
    \/ \E a \in ArgsSetGate : Invoke(a)
    \/ Step
    \/ Tick
SpecGate == InitGate /\ [][NextGate]_vars

\* lib.rs:31-33 the runs are made with and without --rescan, from one source
\* file of two blocks
ArgsSetCrash ==
    [rescan : BOOLEAN, delete_extras : {TRUE}, retry_attempts : {MaxRetry},
     checksum : HashAlgorithms, bwlimit : {NoString},
     block_size : {DefaultBlockSize}]
NextCrash ==
    \/ \E a \in ArgsSetCrash : Invoke(a)
    \/ Step
    \/ Crash
SpecCrash == InitGate /\ [][NextCrash]_vars

\* ---------------------------------- --bwlimit and --block-size are given
BlockSizeStrings ==
    {DefaultBlockSize, <<"1">>, <<>>, <<"a", "b", "c">>, <<"M">>,
     <<"-", "1", "0", "M">>}
BwLimitStrings ==
    {<<" ", "1", ".", "5", "K", " ">>, <<>>, <<"a", "b", "c">>, <<"M">>,
     <<"-", "1", "0", "M">>, <<"0", ".", "0", "0", "0", "1">>}
ArgsSetConfig ==
    [rescan : {FALSE}, delete_extras : {TRUE}, retry_attempts : {MaxRetry},
     checksum : HashAlgorithms,
     bwlimit : {NoString} \cup {SomeString(s) : s \in BwLimitStrings},
     block_size : BlockSizeStrings]

NextConfig ==
    \/ \E a \in ArgsSetConfig : Invoke(a)
    \/ ConfigError
    \/ Step

SpecConfig == Init /\ [][NextConfig]_vars

\* ------------------------------------------- index-only specification
DbHashes == {finalize_hex("Sha256", <<11>>), finalize_hex("Sha256", <<>>)}

DbUpsert(p, m, s, st) ==
    /\ index' = upsert_file(index, SourcePath(p), DestPath(p), m, s, st)
    /\ call' = [op |-> "upsert_file", source_path |-> SourcePath(p),
                modified |-> m, size |-> s, status |-> st]
    /\ UNCHANGED <<src, dst, log, args, config, pc, scanVars, loopVars, skipped,
                   prodVars, queue, consVars, todo, budgetVars>>

DbMarkSynced(p, h) ==
    /\ index' = mark_synced(index, SourcePath(p), h)
    /\ call' = [op |-> "mark_synced", source_path |-> SourcePath(p), hash |-> h]
    /\ UNCHANGED <<src, dst, log, args, config, pc, scanVars, loopVars, skipped,
                   prodVars, queue, consVars, todo, budgetVars>>

NextDb ==
    \/ \E p \in Paths, m \in 1..MaxTime, s \in Sizes,
          st \in {"pending", "synced"} : DbUpsert(p, m, s, st)
    \/ \E p \in Paths, h \in DbHashes : DbMarkSynced(p, h)

SpecDb == Init /\ [][NextDb]_vars

\* C1: upsert_file on a source_path that already has a row with the same
\* modified_date and the same size leaves that row's hash unchanged; on a
\* source_path whose row differs in modified_date or size, or that has no
\* row, it leaves the row with no hash.
C1_HashPreservation ==
    [][call'.op = "upsert_file" =>
        LET sp == call'.source_path IN
        IF /\ HasRow(index, sp)
           /\ index[sp].modified_date = call'.modified
           /\ index[sp].size = call'.size
        THEN index'[sp].hash = index[sp].hash
        ELSE index'[sp].hash = NULL]_vars

\* an upsert has just re-observed a row that carries a hash: the hash
\* survived because modified_date and size were the same
C1_Witness ==
    /\ call.op = "upsert_file"
    /\ HasRow(index, call.source_path)
    /\ index[call.source_path].hash.present

\* -------------------------------------------------------------- properties
Synced(sp) == HasRow(index, sp) /\ index[sp].status = "synced"
DestOf(sp) == dst[RelativePath(sp)]

\* the consumer's mark_synced step, and the scan's compare_and_populate step
MarkStep == cpc = "mark" /\ cpc' = "audit"
PopulateStep == pc = "compare" /\ pc' = "scanned"

\* C2 (as stated): in every reachable index state every record with status
\* synced has a hash present.
C2_SyncedHasHash ==
    \A sp \in DOMAIN index : index[sp].status = "synced" => index[sp].hash.present

\* C2 (amended): the consumer's mark_synced always leaves the record synced
\* with a hash present; a record that is synced without a hash comes into
\* being only in the scan's compare_and_populate, which classifies a record
\* synced by mtime and size without hashing.
C2_SyncedWithoutHashOnlyByScan ==
    [][\A sp \in DOMAIN index' :
          /\ MarkStep /\ sp = block.source_path => index'[sp].hash.present
          /\ (index'[sp].status = "synced" /\ ~index'[sp].hash.present)
                => \/ PopulateStep
                   \/ (HasRow(index, sp) /\ index[sp] = index'[sp])]_vars

\* the consumer has just marked a record synced and it carries the hash of
\* the terminal block
C2_Witness ==
    /\ cpc = "audit"
    /\ Synced(block.source_path)
    /\ index[block.source_path].hash = block.file_hash
    /\ block.file_hash.present

\* C3: a record that is marked synced has its destination file, and the
\* size of the destination file equals the size stored in the record, also
\* when the source file's size changed between the scan that stored the
\* size and the transfer that marks the record synced.
C3_SyncedDestMatchesStoredSize ==
    [][MarkStep =>
          \A sp \in DOMAIN index' :
              (sp = block.source_path /\ index'[sp].status = "synced") =>
                  /\ DestOf(sp).exists
                  /\ Len(DestOf(sp).data) = index'[sp].size]_vars

\* C4: whenever run() returns success with retry_attempts >= 1 and the
\* producer skipped no record, pending_count() is 0.
C4_SuccessLeavesNoBacklog ==
    (pc = "ok" /\ args.retry_attempts >= 1 /\ ~skipped) => pending_count(index) = 0

\* C5: at startup a scan is performed if and only if rescan was requested or
\* pending_count() is 0; otherwise run() goes straight to the transfer of the
\* existing backlog.  The walk of the scan happens in no other way.
C5_StartupDecision ==
    [][/\ (pc = "startup" /\ pc' # "startup") =>
            /\ should_scan' = (args.rescan \/ pending_count(index) = 0)
            /\ pc' = IF args.rescan \/ pending_count(index) = 0
                     THEN "scan" ELSE "loop"
       /\ (pc # "scan" /\ pc' = "scan") => pc = "startup"]_vars

\* a scan is about to walk the trees although a backlog exists, because
\* --rescan was given
C5_Witness ==
    /\ pc = "scan"
    /\ args.rescan
    /\ pending_count(index) > 0

\* C6: after a scan every file of the source snapshot has a row keyed by its
\* source path; the row is synced iff the destination snapshot has the same
\* relative path with equal mtime and equal size, else pending; the count
\* the scan returns is the number of source entries classified pending.
C6_ScanClassification ==
    pc = "scanned" =>
        /\ \A rel \in DOMAIN source_map :
            /\ HasRow(index, SourcePath(rel))
            /\ index[SourcePath(rel)].status \in {"pending", "synced"}
            /\ index[SourcePath(rel)].status = "synced"
                  <=> /\ rel \in DOMAIN dest_map
                      /\ dest_map[rel].mtime = source_map[rel].mtime
                      /\ dest_map[rel].size = source_map[rel].size
        /\ pending = Cardinality({rel \in DOMAIN source_map :
                                     index[SourcePath(rel)].status = "pending"})

\* a scan has classified one source file synced and another one pending
C6_Witness ==
    /\ pc = "scanned"
    /\ \E r1, r2 \in DOMAIN source_map :
        /\ index[SourcePath(r1)].status = "synced"
        /\ index[SourcePath(r2)].status = "pending"
        /\ r2 \in DOMAIN dest_map

\* C7 (as stated): across invocations without --rescan a record's status
\* changes from pending to synced only by the consumer's mark_synced after a
\* successful terminal-block write, and never changes from synced to pending.
C7_NeverBackToPending ==
    [][\A sp \in DOMAIN index :
          /\ (index[sp].status = "pending" /\ index'[sp].status = "synced")
                => MarkStep /\ block.source_path = sp /\ block.is_last_block
          /\ index[sp].status = "synced" => index'[sp].status = "synced"]_vars

\* the terminal block the consumer holds is on the destination file
TerminalBlockWritten ==
    /\ block.is_last_block
    /\ DestOf(block.source_path).exists
    /\ SubSeq(DestOf(block.source_path).data, block.offset + 1,
              block.offset + Len(block.data)) = block.data

\* C7 (amended): across invocations without --rescan a record's status
\* changes from pending to synced only by the consumer's mark_synced for that
\* record after its terminal block was written, and changes from synced to
\* pending only in a scan whose destination snapshot lacks the path or
\* differs from the source snapshot in mtime or size.
C7_StatusTransitions ==
    [][\A sp \in DOMAIN index :
          /\ (index[sp].status = "pending" /\ index'[sp].status = "synced")
                => MarkStep /\ block.source_path = sp /\ TerminalBlockWritten
          /\ (index[sp].status = "synced" /\ index'[sp].status = "pending")
                => /\ PopulateStep
                   /\ LET rel == RelativePath(sp) IN
                      /\ rel \in DOMAIN source_map
                      /\ \/ rel \notin DOMAIN dest_map
                         \/ dest_map[rel].mtime # source_map[rel].mtime
                         \/ dest_map[rel].size # source_map[rel].size]_vars

\* a scan has put back to pending a record that an earlier transfer had
\* marked synced
C7_Witness ==
    /\ pc = "scanned"
    /\ \E sp \in DOMAIN index :
        /\ index[sp].status = "pending"
        /\ \E l \in log : l.source_path = sp /\ Contains(l, "Transferred:")

\* source and destination agree and the index says so: every source file
\* has a synced record and the destination holds its bytes and its mtime
InSync ==
    \A p \in Paths :
        src[p].exists => /\ Synced(SourcePath(p))
                         /\ dst[p] = Mirror(src[p])

\* C8: once every source file is transferred, and while the source does not
\* change, a run sends no block, writes no destination file, leaves the
\* destination mtimes and every record's status and hash unchanged.
C8_Idempotence ==
    [][(InSync /\ src' = src) =>
          /\ queue' = <<>>
          /\ \A p \in Paths : src[p].exists => dst'[p] = dst[p]
          /\ \A sp \in DOMAIN index :
                /\ index'[sp].status = index[sp].status
                /\ index'[sp].hash = index[sp].hash]_vars

\* the producer takes its step at the stat of the current record, whose
\* source file does not exist
SkipAtStat ==
    /\ ppc = "stat"
    /\ ~src[RelativePath(Head(pending_files).source_path)].exists
    /\ <<ppc, pending_files>>' # <<ppc, pending_files>>

\* the producer takes its step at the open of the current record, whose
\* source file does not exist
SkipAtOpen ==
    /\ ppc = "open"
    /\ ~src[RelativePath(Head(pending_files).source_path)].exists
    /\ <<ppc, pending_files>>' # <<ppc, pending_files>>

\* C9: when the producer's stat fails because the file does not exist, the
\* audit log gains a skip line with the phrase `source file no longer exists`.
C9_SkipLinePhrase ==
    [][SkipAtStat =>
          \E l \in log' :
              /\ l.source_path = Head(pending_files).source_path
              /\ Contains(l, "source file no longer exists")]_vars

BlocksInFlight == {queue[i] : i \in DOMAIN queue} \cup {block}

\* C10: when the producer cannot stat or open a pending record's source
\* file it sends no block for the record, creates no destination file,
\* leaves the record pending, goes on with the next record of the backlog
\* (or returns success after the last one) and does not fail.
C10_SkipIsNotFailure ==
    [][(SkipAtStat \/ SkipAtOpen) =>
          LET sp == Head(pending_files).source_path IN
          /\ queue' = queue
          /\ \A b \in BlocksInFlight : b.source_path # sp
          /\ dst' = dst
          /\ index' = index
          /\ index[sp].status = "pending"
          /\ pending_files' = Tail(pending_files)
          /\ ppc' = IF Tail(pending_files) = <<>> THEN "ok" ELSE "stat"]_vars

\* run() has returned success although it skipped a record, which is still
\* pending, and transferred another one
C10_Witness ==
    /\ pc = "ok"
    /\ skipped
    /\ \E sp, sq \in DOMAIN index :
        /\ index[sp].status = "pending"
        /\ ~src[RelativePath(sp)].exists
        /\ \E l \in log : l.source_path = sp /\ Contains(l, "Skipping (read error):")
        /\ index[sq].status = "synced"
        /\ \E l \in log : l.source_path = sq /\ Contains(l, "Transferred:")

\* the step in which run() joins the two threads of an attempt
JoinStep == pc = "running" /\ pc' # "running"

\* the step in which run() leaves the retry loop behind
ExhaustionStep == pc = "after_loop" /\ pc' # "after_loop"

\* C11: run() fails from the transfer phase if and only if the last executed
\* attempt ended with an error (of the producer or of the consumer) and
\* pending_count() is still > 0; the failure message names retry_attempts
\* and the last error and is written to the audit log; an attempt that
\* erred with the backlog empty afterwards does not make run() fail.
C11_FailureIffErrorAndBacklog ==
    [][/\ JoinStep => (last_error' # NoError <=> (ppc # "ok" \/ cpc # "ok"))
       /\ (last_error' # last_error /\ pc' \notin {"idle", "startup"}) => JoinStep
       /\ ExhaustionStep =>
            /\ pc' = "err" <=> (last_error # NoError /\ pending_count(index) > 0)
            /\ pc' = "err" =>
                  \E l \in log' : /\ Contains(l, "Transfer failed after")
                                   /\ Contains(l, ToString(args.retry_attempts))
                                   /\ Contains(l, last_error)
            /\ pc' # "err" => log' = log]_vars

\* run() has returned success although its last attempt erred: the backlog
\* was empty afterwards
C11_Witness ==
    /\ pc = "ok"
    /\ last_error # NoError
    /\ pending_count(index) = 0
    /\ \E sp \in DOMAIN index : index[sp].status = "synced" /\ index[sp].hash.present

\* the step in which run() spawns the producer and the consumer
SpawnStep == pc # "running" /\ pc' = "running"

\* C12: in one invocation the pair is spawned at most retry_attempts times
\* (attempt k is spawned once, with k <= retry_attempts, and k goes up by one
\* after every attempt that erred); an attempt is spawned only with
\* pending_count() > 0; after an attempt in which both threads returned
\* without error no further attempt is spawned; the retry sleep happens
\* before every attempt numbered 2 or higher and never before attempt 1.
C12_RetryLoop ==
    [][/\ SpawnStep =>
            /\ attempt >= 1
            /\ attempt <= args.retry_attempts
            /\ pending_count(index) > 0
            /\ pc = (IF attempt = 1 THEN "loop" ELSE "sleep")
       /\ (pc # "sleep" /\ pc' = "sleep") => attempt > 1
       /\ pc = "sleep" => (pc' = "sleep" \/ SpawnStep)
       /\ JoinStep =>
            IF ppc = "ok" /\ cpc = "ok"
            THEN pc' = "after_loop" /\ attempt' = attempt
            ELSE pc' = "loop" /\ attempt' = attempt + 1
       /\ pc = "after_loop" => pc' \notin {"loop", "sleep", "running"}
       /\ (attempt' # attempt /\ pc \notin {"idle", "startup", "ok", "err"}) => JoinStep]_vars

\* the second attempt of an invocation runs, after the retry line and the sleep
C12_Witness ==
    /\ pc = "running"
    /\ attempt = 2
    /\ \E l \in log : Contains(l, "Retry attempt") /\ Contains(l, last_error)

\* one destination entry leaves the sweep's worklist
Inspected(p) == pc = "cleaning" /\ p \in todo /\ p \notin todo'

C14_CleanupErrorNotFatal == [][pc = "cleaning" => pc' # "err"]_vars

\* what the row of sp adds to the backlog: one file and its size when it is
\* pending, nothing when it is synced or missing
BacklogFiles(idx, sp) ==
    IF HasRow(idx, sp) /\ idx[sp].status = "pending" THEN 1 ELSE 0
BacklogBytes(idx, sp) ==
    IF HasRow(idx, sp) /\ idx[sp].status = "pending" THEN idx[sp].size ELSE 0

\* C15: every upsert_file and every mark_synced moves pending_count() and
\* pending_total_bytes() by exactly what the row it touched added to the
\* backlog before and adds after, so that the two always are the number
\* and the summed size of the pending rows (0 when there are none); an
\* upsert of a source_path that has a row replaces it, the set of rows
\* grows by at most that key.
C15_BacklogCounters ==
    [][call'.op \in {"upsert_file", "mark_synced"} =>
        LET sp == call'.source_path IN
        /\ DOMAIN index' = IF call'.op = "upsert_file"
                           THEN DOMAIN index \cup {sp} ELSE DOMAIN index
        /\ pending_count(index') =
             pending_count(index) - BacklogFiles(index, sp) + BacklogFiles(index', sp)
        /\ pending_total_bytes(index') =
             pending_total_bytes(index) - BacklogBytes(index, sp) + BacklogBytes(index', sp)
        /\ BacklogFiles(index', sp) =
             IF call'.op = "upsert_file" /\ call'.status = "pending" THEN 1 ELSE 0
        /\ BacklogBytes(index', sp) =
             IF call'.op = "upsert_file" /\ call'.status = "pending"
             THEN call'.size ELSE 0
        /\ (\A q \in DOMAIN index' : index'[q].status # "pending") =>
             pending_count(index') = 0 /\ pending_total_bytes(index') = 0]_vars

\* a synced row with a size of its own sits next to the one pending row:
\* the backlog counts one file and that file's bytes only
C15_Witness ==
    /\ call.op = "mark_synced"
    /\ \E sp, sq \in DOMAIN index :
         /\ sp = call.source_path
         /\ index[sp].status = "synced" /\ index[sp].size = 1
         /\ index[sq].status = "pending" /\ index[sq].size = MaxSize
    /\ pending_count(index) = 1
    /\ pending_total_bytes(index) = MaxSize

\* C16: mark_synced(source_path, hash) on a source_path that has a row sets
\* that row's status to synced and its hash to the given hash and leaves
\* its other columns and every other row as they were; on a source_path
\* with no row it leaves the index as it was and creates no row.
C16_MarkSyncedFrame ==
    [][call'.op = "mark_synced" =>
        LET sp == call'.source_path IN
        /\ DOMAIN index' = DOMAIN index
        /\ \A q \in DOMAIN index \ {sp} : index'[q] = index[q]
        /\ HasRow(index, sp) =>
             /\ index'[sp].status = "synced"
             /\ index'[sp].hash = Some(call'.hash)
             /\ index'[sp].dest_path = index[sp].dest_path
             /\ index'[sp].modified_date = index[sp].modified_date
             /\ index'[sp].size = index[sp].size]_vars

\* mark_synced was called for a source_path without a row while another row
\* is there, pending and without a hash
C16_Witness ==
    /\ call.op = "mark_synced"
    /\ ~HasRow(index, call.source_path)
    /\ \E sq \in DOMAIN index : index[sq].status = "pending" /\ ~index[sq].hash.present

\* C18: every block the producer enqueues has a payload no longer than the
\* block size the invocation was given.
C18_PayloadWithinBlockSize ==
    pc = "running" =>
        \A b \in BlocksInFlight : Len(b.data) <= block_size(args)

\* strings that are no bandwidth: empty, no number, a suffix alone, a
\* negative number, and a positive number that rounds to 0
NotABandwidth ==
    {<<>>, <<"a", "b", "c">>, <<"M">>, <<"-", "1", "0", "M">>,
     <<"0", ".", "0", "0", "0", "1">>}
BadConfig(a) ==
    \/ a.bwlimit.present /\ a.bwlimit.value \in NotABandwidth
    \/ a.block_size \in NotABandwidth

\* C19: an invocation whose --bwlimit or --block-size string is no
\* bandwidth fails in its first step: the index, the trees, the audit log,
\* the scan snapshots, both threads and the queue are as they were before
\* the call; an invocation whose strings are well formed does not fail
\* there.
C19_ConfigErrorFailsAtStartup ==
    [][(pc = "startup" /\ pc' # "startup") =>
         IF BadConfig(args)
         THEN /\ pc' = "err"
              /\ UNCHANGED <<src, dst, index, log, call, scanVars, loopVars,
                             prodVars, queue, consVars, todo>>
         ELSE pc' \in {"scan", "loop"}]_vars

\* a second invocation failed on its --block-size after a first one had
\* synced a file: the first run's work is all there is
C19_Witness ==
    /\ pc = "err"
    /\ args.block_size \in NotABandwidth
    /\ ~args.bwlimit.present
    /\ ppc = "off" /\ attempt = 0
    /\ \E sp \in DOMAIN index : index[sp].status = "synced" /\ index[sp].hash.present

\* the producer has put one more block on the queue
Enqueued == Len(queue') > Len(queue)

\* C20: the backlog an attempt reads is exactly the records pending at that
\* moment; every block the producer enqueues belongs to a record of that
\* backlog that is still pending; while an attempt runs, the destination
\* file of a record that is synced is not written.
C20_NoRedoOfSyncedRecords ==
    [][pc = "running" =>
         /\ (ppc = "init" /\ ppc' # "init") =>
              {pending_files'[i].source_path : i \in DOMAIN pending_files'}
                = PendingRows(index)
         /\ Enqueued =>
              LET sp == queue'[Len(queue')].source_path IN
              /\ sp = Head(pending_files).source_path
              /\ HasRow(index, sp) /\ index[sp].status = "pending"
         /\ \A p \in Paths :
              dst'[p] # dst[p] =>
                 /\ HasRow(index, SourcePath(p))
                 /\ index[SourcePath(p)].status = "pending"]_vars

\* a second attempt is sending a pending record while another record, synced
\* by the first attempt with its hash, stays out of the backlog
C20_Witness ==
    /\ pc = "running"
    /\ attempt = 2
    /\ queue # <<>>
    /\ \E sp \in DOMAIN index :
         /\ index[sp].status = "synced" /\ index[sp].hash.present
         /\ sp # queue[1].source_path
         /\ \A i \in DOMAIN pending_files : pending_files[i].source_path # sp

ConsumerErrors == ConsumerResults \ {"ok"}
TransferredLines(lg) == {l \in lg : Contains(l, "Transferred:")}

\* C22: during an attempt the index changes only when the consumer holds a
\* terminal block whose payload is in the destination file and whose mtime
\* the destination carries; the destination's times are set only once the
\* terminal payload is written; the audit entry of a record is written only
\* once the record is synced with the block's hash; and when the consumer
\* fails, that step and every later step of the attempt leave the index
\* alone, write no audit entry and the consumer stays failed.
C22_TerminalBlockOrder ==
    [][(pc = "running" /\ pc' = "running") =>
         /\ index' # index =>
              /\ cpc = "mark"
              /\ TerminalBlockWritten
              /\ DestOf(block.source_path).mtime = block.mtime
              /\ index' = mark_synced(index, block.source_path,
                                      block.file_hash.digest)
         /\ (cpc = "times" /\ dst' # dst) =>
              /\ TerminalBlockWritten
              /\ DestOf(block.source_path)' =
                   [DestOf(block.source_path) EXCEPT !.mtime = block.mtime]
         /\ \A l \in TransferredLines(log') \ TransferredLines(log) :
              /\ l.source_path = block.source_path
              /\ Synced(l.source_path)
              /\ index[l.source_path].hash = l.hash
              /\ DestOf(l.source_path).mtime = block.mtime
         /\ (cpc' \in ConsumerErrors \/ cpc \in ConsumerErrors) =>
              /\ index' = index
              /\ TransferredLines(log') = TransferredLines(log)
         /\ cpc \in ConsumerErrors => cpc' = cpc /\ dst' = dst]_vars

\* the consumer is about to write the audit entry of a file of several
\* blocks: payload written, mtime restored, record synced with the hash
C22_Witness ==
    /\ pc = "running"
    /\ cpc = "audit"
    /\ block.offset > 0
    /\ TerminalBlockWritten
    /\ DestOf(block.source_path).mtime = block.mtime
    /\ Synced(block.source_path)
    /\ index[block.source_path].hash = block.file_hash
    /\ TransferredLines(log) = {}

\* the consumer has written the block it holds
WriteStep == cpc = "write" /\ cpc' \in {"recv", "times"}

\* C23: a write of a block leaves the destination file existing with the
\* payload at exactly the block's offset; with offset 0 the file holds the
\* payload and nothing else (created or truncated); with offset > 0 an
\* existing file is not truncated and keeps every byte outside
\* [offset, offset + payload length); no other destination file changes.
C23_WriteAtOffset ==
    [][WriteStep =>
        LET p == RelativePath(block.dest_path)
            off == block.offset
            n == Len(block.data)
            old == dst[p]
            new == dst'[p] IN
        /\ new.exists
        /\ SubSeq(new.data, off + 1, off + n) = block.data
        /\ off = 0 => new.data = block.data
        /\ (off > 0 /\ old.exists) =>
              /\ Len(new.data) = Max(Len(old.data), off + n)
              /\ \A i \in 1..Len(old.data) :
                    (i <= off \/ i > off + n) => new.data[i] = old.data[i]
        /\ (off > 0 /\ ~old.exists) => Len(new.data) = off + n
        /\ \A q \in Paths \ {p} : dst'[q] = dst[q]]_vars

\* the last block of a file of several blocks was written behind the bytes
\* of the blocks before it: the destination holds the whole source
C23_Witness ==
    /\ cpc = "times"
    /\ block.offset > 0
    /\ Len(block.data) > 0
    /\ LET p == RelativePath(block.dest_path) IN
         /\ src[p].exists
         /\ dst[p].data = Content(src[p])

\* C24: a block with offset 0 is the first block the producer sends for
\* its file in the attempt: none is sent once bytes of the file have been
\* sent.
C24_OffsetZeroOnlyFirst ==
    [][(pc = "running" /\ Enqueued) =>
         (queue'[Len(queue')].offset = 0 => offset = 0)]_vars

\* the block the producer has just put on the queue
NewBlock == queue'[Len(queue')]

\* C25: the queue is first-in first-out between one producer and one
\* consumer, and the producer sends the blocks of a file in offset order
\* without gaps: the first block of a file has offset 0, every later block
\* belongs to the same file as the block before it and starts where that
\* block's payload ended.
C25_BlocksInOffsetOrder ==
    [][pc = "running" =>
         /\ Enqueued =>
              /\ queue' = Append(queue, NewBlock)
              /\ IF sent = <<>> THEN NewBlock.offset = 0
                 ELSE LET prev == sent[Len(sent)] IN
                      /\ NewBlock.source_path = prev.source_path
                      /\ NewBlock.offset = prev.offset + Len(prev.data)
         /\ (cpc = "recv" /\ cpc' = "write") =>
              block' = Head(queue) /\ queue' = Tail(queue)]_vars

\* the payloads of a sequence of blocks, one after the other
RECURSIVE PayloadsOf(_)
PayloadsOf(bs) ==
    IF bs = <<>> THEN <<>> ELSE Head(bs).data \o PayloadsOf(Tail(bs))

\* C26: a block the producer sends carries a hash exactly when it is
\* terminal; the hash of a terminal block is the digest of the payloads of
\* all blocks sent for the file in the attempt, in the order sent, this
\* block's included; no block sent before it for the file is terminal and
\* none is sent after it (the producer moves to the next record, and a
\* record is in the backlog once); the hash mark_synced stores is the
\* terminal block's.
C26_TerminalBlockHash ==
    [][pc = "running" =>
         /\ Enqueued =>
              /\ NewBlock.file_hash.present <=> NewBlock.is_last_block
              /\ NewBlock.is_last_block =>
                   /\ NewBlock.file_hash =
                        Some(finalize_hex(args.checksum,
                                          PayloadsOf(Append(sent, NewBlock))))
                   /\ pending_files' = Tail(pending_files)
              /\ \A i \in DOMAIN sent :
                   /\ ~sent[i].is_last_block
                   /\ sent[i].source_path = NewBlock.source_path
         /\ (ppc = "init" /\ ppc' # "init") =>
              \A i, j \in DOMAIN pending_files' :
                 pending_files'[i].source_path = pending_files'[j].source_path
                    => i = j
         /\ index' # index =>
              /\ block.is_last_block /\ block.file_hash.present
              /\ index'[block.source_path].hash = block.file_hash]_vars

\* the terminal block of a file of several blocks is on its way with the
\* digest of all the file's bytes
C26_Witness ==
    /\ pc = "running"
    /\ \E i \in DOMAIN queue :
         /\ queue[i].is_last_block
         /\ queue[i].offset > 0
         /\ queue[i].file_hash.present
         /\ Len(queue[i].file_hash.digest.input)
              = queue[i].offset + Len(queue[i].data)

\* the block size an invocation was given: BLOCK_SIZE, which stands for the
\* 5 MiB of the default string, or the value of its --block-size string
ConfiguredBlockSize ==
    IF args.block_size = DefaultBlockSize THEN BLOCK_SIZE ELSE block_size(args)
\* the number of blocks of a file for a block size: ceil(size / bs)
BlockCount(size, bs) == (size + bs - 1) \div bs
\* the producer reads from a file that is as long as its stat said
Unchanged == ppc = "read" /\ Len(file) = meta.size
\* reading a file of size > 0 that is as long as its stat said, the
\* producer sends ceil(size / bs) blocks: the i-th starts at (i - 1) * bs,
\* every block but the last is bs long and not terminal, the last is
\* terminal, carries the hash and holds the remaining bytes (bs of them
\* when the size is a multiple); the producer leaves the file only by
\* sending that terminal block
BlocksOfSize(bs) ==
    (pc = "running" /\ Unchanged /\ meta.size > 0) =>
         /\ Enqueued =>
              /\ NewBlock.offset = Len(sent) * bs
              /\ NewBlock.is_last_block <=> Len(sent) + 1 = BlockCount(meta.size, bs)
              /\ Len(sent) + 1 <= BlockCount(meta.size, bs)
              /\ Len(NewBlock.data) =
                   IF ~NewBlock.is_last_block \/ meta.size % bs = 0
                   THEN bs ELSE meta.size % bs
              /\ NewBlock.is_last_block => NewBlock.file_hash.present
         /\ pending_files' # pending_files =>
              Enqueued /\ NewBlock.is_last_block

C27_BlockCountOfConstant == [][BlocksOfSize(BLOCK_SIZE)]_vars

\* a file of 2 * BLOCK_SIZE + 1 bytes: its third block is the terminal one,
\* holds one byte and carries the hash of all of them
C27_WitnessOfConstant ==
    /\ pc = "running"
    /\ \E i \in DOMAIN queue :
         /\ queue[i].file_size = 2 * BLOCK_SIZE + 1
         /\ queue[i].offset = 2 * BLOCK_SIZE
         /\ Len(queue[i].data) = 1
         /\ queue[i].is_last_block
         /\ queue[i].file_hash.present
         /\ Len(queue[i].file_hash.digest.input) = 2 * BLOCK_SIZE + 1

\* the block of a zero-byte file: terminal, no payload, offset 0, the hash
\* of the empty input
IsEmptyFileBlock(b) ==
    /\ b.is_last_block
    /\ b.data = <<>>
    /\ b.offset = 0
    /\ b.file_size = 0
    /\ b.file_hash = Some(finalize_hex(args.checksum, <<>>))

\* C28: for a source file that is zero bytes long (at its stat and when it
\* is read) the producer sends exactly one block, the first and only one
\* for the file: terminal, empty payload, offset 0, with the hash of the
\* empty input, and it leaves the file only by sending it; when the
\* consumer marks that block's record, the destination file exists with
\* size 0 and the record becomes synced with that hash.
C28_ZeroByteFile ==
    [][pc = "running" =>
         /\ (ppc = "read" /\ meta.size = 0 /\ file = <<>>) =>
              /\ Enqueued =>
                   /\ sent = <<>>
                   /\ IsEmptyFileBlock(NewBlock)
                   /\ NewBlock.source_path = Head(pending_files).source_path
                   /\ pending_files' = Tail(pending_files)
              /\ pending_files' # pending_files => Enqueued
         /\ (MarkStep /\ IsEmptyFileBlock(block)) =>
              /\ DestOf(block.source_path).exists
              /\ DestOf(block.source_path).data = <<>>
              /\ Synced(block.source_path)'
              /\ index'[block.source_path].hash = block.file_hash]_vars

\* the consumer has handled the block of a zero-byte file: the destination
\* is an empty file and the record is synced with the hash of the empty
\* input
C28_Witness ==
    /\ pc = "running"
    /\ cpc = "audit"
    /\ IsEmptyFileBlock(block)
    /\ ~src[RelativePath(block.source_path)].exists
         \/ src[RelativePath(block.source_path)].size = 0
    /\ DestOf(block.source_path).exists
    /\ DestOf(block.source_path).data = <<>>
    /\ Synced(block.source_path)
    /\ index[block.source_path].hash = Some(finalize_hex(args.checksum, <<>>))

\* C29: while the pipeline runs the queue holds at most QueueCapacity
\* blocks; the producer enqueues only into a queue that is not full and
\* whose consumer is still there, so with a full queue its send waits; a
\* block leaves the queue only by the consumer receiving the oldest one;
\* every attempt starts on an empty queue of its own.
C29_QueueBound ==
    [][/\ pc' = "running" => Len(queue') <= QueueCapacity
       /\ (pc = "running" /\ Enqueued) =>
            /\ Len(queue) < QueueCapacity
            /\ cpc \notin ConsumerResults
            /\ queue' = Append(queue, NewBlock)
       /\ (pc = "running" /\ pc' = "running" /\ Len(queue') < Len(queue)) =>
            /\ cpc = "recv"
            /\ block' = Head(queue)
            /\ queue' = Tail(queue)
       /\ (pc # "running" /\ pc' = "running") => queue' = <<>>]_vars

\* in a second attempt the queue is full while the consumer is busy with a
\* block and the producer has more of the file to send
C29_Witness ==
    /\ pc = "running"
    /\ attempt > 1
    /\ Len(queue) = QueueCapacity
    /\ cpc = "write"
    /\ ppc = "read"
    /\ offset > 0
    /\ offset < Len(file)

\* an attempt in which no read, write, set-times, log or index operation
\* has failed
NoIOError ==
    /\ ppc # "source read error"
    /\ cpc \notin {"destination write error", "audit log write error"}

\* C30: under fair scheduling an attempt that is running is eventually
\* joined; when no I/O or index error occurred in it, at the join the
\* producer has finished with Ok and closed the queue, the consumer has
\* received every block that was enqueued (the queue is empty) and has
\* exited with Ok.
C30_PipelineTermination ==
    /\ (pc = "running") ~> (pc # "running")
    /\ [][(JoinStep /\ NoIOError) =>
            /\ ppc = "ok"
            /\ cpc = "ok"
            /\ queue = <<>>]_vars

\* the same for the attempts whose consumer was given no limit of 0
C30_TerminationWithoutZeroLimit ==
    /\ (pc = "running") ~> (pc # "running")
    /\ [][(JoinStep /\ NoIOError /\ ~gate_panics(config.bw_limit)) =>
            /\ ppc = "ok"
            /\ cpc = "ok"
            /\ queue = <<>>]_vars

\* the consumer has returned an error (it has not panicked)
ConsumerReturnedError ==
    cpc \in {"destination write error", "audit log write error"}

\* C31: once the consumer has returned an error the running attempt is
\* eventually joined (the producer ends: its next send fails, also with a
\* full queue); the join records an error and counts the attempt; and when
\* attempts remain and the backlog is not empty the next attempt is
\* spawned.
C31_TeardownAfterConsumerError ==
    /\ (pc = "running" /\ ConsumerReturnedError) ~> (pc # "running")
    /\ [][(JoinStep /\ ConsumerReturnedError) =>
            /\ ppc \in ProducerResults
            /\ last_error' # NoError
            /\ attempt' = attempt + 1
            /\ pc' = "loop"]_vars
    /\ (/\ pc = "loop"
        /\ last_error # NoError
        /\ loop_continues(attempt, args.retry_attempts)
        /\ pending_count(index) > 0) ~> (pc = "running")

\* the consumer has failed on a write while the queue is full, and the
\* producer's send has failed
C31_Witness ==
    /\ pc = "running"
    /\ cpc = "destination write error"
    /\ Len(queue) = QueueCapacity
    /\ ppc = "Failed to send block"

\* C32: when a thread of the attempt has panicked, the join records an
\* error for the attempt and run() goes on to the retry decision at the
\* head of the loop with the attempt counted; run() does not end there.
C32_PanicIsAttemptFailure ==
    [][(JoinStep /\ cpc = "panicked") =>
          /\ last_error' # NoError
          /\ attempt' = attempt + 1
          /\ pc' = "loop"]_vars

\* C33: when the consumer has returned an error and the producer has
\* failed only because its send was rejected (which happens only after
\* the consumer is gone), the error the join records for the attempt is
\* the consumer's.
C33_FirstErrorRecorded ==
    [][(JoinStep /\ ConsumerReturnedError /\ ppc = "Failed to send block") =>
          last_error' = cpc]_vars

\* a destination file is removed
DestDeleted == \E p \in Paths : dst[p].exists /\ ~dst'[p].exists

\* C34: a destination file is deleted only by the cleanup of an invocation
\* with delete_extras; cleanup is entered only with delete_extras, with no
\* thread of an attempt left, either after the retry loop when run() does
\* not fail with the retry-exhaustion error, or after a scan that counted
\* nothing pending; once entered, the invocation makes no further scan,
\* attempt or second cleanup and ends; with delete_extras an invocation
\* succeeds only out of a completed cleanup, and without it cleanup is
\* never entered.
C34_CleanupAfterTransfer ==
    [][/\ DestDeleted => pc = "cleaning" /\ args.delete_extras
       /\ (pc # "cleanup" /\ pc' = "cleanup") =>
            /\ args.delete_extras
            /\ ppc = "off" /\ cpc = "off"
            /\ \/ /\ pc = "after_loop"
                  /\ ~(last_error # NoError /\ pending_count(index) > 0)
               \/ /\ pc = "scanned"
                  /\ pending = 0
       /\ (pc = "after_loop" /\ pc' = "err") => \A l \in log' \ log : ~Contains(l, "Deleted extra:")
       /\ pc = "cleanup" => pc' \in {"cleanup", "cleaning"}
       /\ pc = "cleaning" => pc' \in {"cleaning", "ok", "err"}
       /\ pc' = "cleaning" => pc \in {"cleanup", "cleaning"}
       /\ (pc # "ok" /\ pc' = "ok") =>
            IF args.delete_extras THEN pc = "cleaning" /\ todo = {}
            ELSE pc \in {"after_loop", "scanned"}
       /\ ~args'.delete_extras => pc' \notin {"cleanup", "cleaning"}]_vars

\* an invocation with delete_extras has transferred a file, then deleted an
\* extra destination file, and has succeeded
C34_Witness ==
    /\ pc = "ok"
    /\ args.delete_extras
    /\ TransferredLines(log) # {}
    /\ \E l \in log : Contains(l, "Deleted extra:")

\* what the gate leaves besides the elapsed time: the counter of the bytes
\* written grows by each payload written and by nothing else, and starts
\* at 0, like the consumer's clock, in every attempt; without a limit the
\* consumer never sleeps
GateCounter ==
    /\ WriteStep =>
         total_bytes_written' = total_bytes_written + Len(block.data)
    /\ SpawnStep => total_bytes_written' = 0 /\ elapsed' = 0
    /\ (pc = "running" /\ pc' = "running"
          /\ total_bytes_written' # total_bytes_written) => cpc = "write"
    /\ (pc = "running" /\ ~config.bw_limit.present) => elapsed' = elapsed

Unwritten == (IF cpc = "write" THEN <<block>> ELSE <<>>) \o queue
UnwrittenOf(sp) == SelectSeq(Unwritten, LAMBDA b : b.source_path = sp)

\* the consumer, which has not failed, has written some block of the record
\* and not its last one: the next block it would write for it is not the first, or every block
\* sent was written and the producer is in the middle of the file
PartlyWritten(sp) ==
    /\ cpc \in {"recv", "write"}
    /\ IF UnwrittenOf(sp) # <<>> THEN Head(UnwrittenOf(sp)).offset > 0
       ELSE /\ ppc = "read"
            /\ Head(pending_files).source_path = sp
            /\ sent # <<>>

\* the size the producer's stat gave for the record being transferred
StatSize(sp) ==
    IF UnwrittenOf(sp) # <<>> THEN Head(UnwrittenOf(sp)).file_size ELSE meta.size

CrashStep == pc = "running" /\ pc' = "killed"

\* C36: when the process is killed while a record is partly written, the
\* record is pending, and the destination file exists, does not carry the
\* source's mtime and, the source being as long as at its stat, is shorter
\* than the source; in every invocation the blocks of a record start at
\* offset 0; a scan classifies pending every source file whose destination
\* is of another size; and a pending record becomes synced only by the
\* consumer's mark_synced once its terminal block is written, or in a scan
\* whose destination snapshot has the source's mtime and size.
C36_CrashRecovery ==
    [][/\ CrashStep =>
            \A sp \in DOMAIN index :
               PartlyWritten(sp) =>
                  LET rel == RelativePath(sp) IN
                  /\ index'[sp].status = "pending"
                  /\ dst'[rel].exists
                  /\ src[rel].exists => dst'[rel].mtime # src[rel].mtime
                  /\ (src[rel].exists /\ src[rel].size = StatSize(sp)) =>
                        Len(dst'[rel].data) < src[rel].size
       /\ (pc = "running" /\ Enqueued /\ sent = <<>>) => NewBlock.offset = 0
       /\ \A sp \in DOMAIN index' :
            LET rel == RelativePath(sp) IN
            /\ (PopulateStep /\ rel \in DOMAIN source_map /\ rel \in DOMAIN dest_map
                   /\ dest_map[rel].size # source_map[rel].size) =>
                  index'[sp].status = "pending"
            /\ (sp \in DOMAIN index /\ index[sp].status = "pending"
                   /\ index'[sp].status = "synced") =>
                  \/ MarkStep /\ block.source_path = sp /\ TerminalBlockWritten
                  \/ /\ PopulateStep
                     /\ rel \in DOMAIN source_map
                     /\ rel \in DOMAIN dest_map
                     /\ dest_map[rel].mtime = source_map[rel].mtime
                     /\ dest_map[rel].size = source_map[rel].size]_vars

\* the process was killed after the first of the two blocks of the file was
\* written: the record is pending and the destination holds the first block
C36_Witness ==
    /\ pc = "killed"
    /\ index[SourcePath("a")].status = "pending"
    /\ src["a"].exists
    /\ dst["a"].exists
    /\ Len(dst["a"].data) = BLOCK_SIZE
    /\ Len(dst["a"].data) < src["a"].size

\* the producer has read the record's file to its end and moves on
ReadToEnd == pc = "running" /\ ppc = "read" /\ pending_files' = Tail(pending_files)

\* the terminal blocks the producer has sent for the record it is reading,
\* the block it sends in this step included
TerminalBlocksSent ==
    Cardinality({i \in 1..Len(sent) : sent[i].is_last_block})
      + (IF Enqueued /\ NewBlock.is_last_block THEN 1 ELSE 0)

\* C37: when the producer has read a record's file to its end without an
\* error it has sent exactly one terminal block for it, whatever the length
\* of the file at its stat was; and when both threads of an attempt in which
\* no record was skipped return Ok, no record is left pending.
C37_OneTerminalBlock ==
    [][/\ ReadToEnd => TerminalBlocksSent = 1
       /\ (JoinStep /\ ppc = "ok" /\ cpc = "ok" /\ ~skipped) =>
            \A sp \in DOMAIN index : index[sp].status = "synced"]_vars

\* a pending record whose source file does not exist
GhostPending(sp) ==
    /\ sp \in DOMAIN index
    /\ index[sp].status = "pending"
    /\ ~src[RelativePath(sp)].exists

\* C38: in invocations without --rescan, while a pending record's source
\* file is absent and stays absent, the record stays pending; the startup
\* decision finds a backlog and skips the scan; no scan step is taken, so the
\* index gains no record; the producer of every attempt has the record in
\* its backlog and, on its stat, logs a skip and moves to the next record.
C38_GhostKeepsScanAway ==
    [][\A sp \in DOMAIN index :
         (GhostPending(sp) /\ ~src'[RelativePath(sp)].exists) =>
            /\ sp \in DOMAIN index' /\ index'[sp].status = "pending"
            /\ DOMAIN index' = DOMAIN index
            /\ pc' \notin {"scan", "compare", "scanned"}
            /\ (pc = "startup" /\ pc' # "startup" /\ pc' # "err") =>
                  /\ pending_count(index) > 0
                  /\ ~should_scan'
                  /\ pc' = "loop"
            /\ (ppc = "init" /\ ppc' # "init") =>
                  \E i \in 1..Len(pending_files') :
                     pending_files'[i].source_path = sp
            /\ (ppc = "stat" /\ Head(pending_files).source_path = sp
                   /\ ppc' # ppc) =>
                  /\ skipped'
                  /\ Line(<<"Skipping (read error):", "-", NotFoundText>>,
                          sp, <<>>, NULL) \in log'
                  /\ pending_files' = Tail(pending_files)
                  /\ ppc' \in {"stat", "ok"}]_vars

\* the second invocation found the backlog, did not scan and has skipped the
\* record of the absent file, which is still pending, while a source file
\* exists that the index does not know
C38_Witness ==
    /\ pc = "running"
    /\ ~should_scan
    /\ skipped
    /\ GhostPending(SourcePath("a"))
    /\ runsLeft = 0
    /\ src["b"].exists
    /\ SourcePath("b") \notin DOMAIN index

\* the step that follows the scan: the early return or the way to the loop
AfterScanStep == pc = "scanned" /\ pc' # "scanned"

\* C39: after a scan the count it returned is 0 exactly when the index has
\* no pending row, and run() goes on without a transfer attempt only when
\* the index has no pending row.
C39_EarlyReturnOnlyWithoutBacklog ==
    [][AfterScanStep =>
         /\ (pending = 0) <=> (pending_count(index) = 0)
         /\ pc' # "loop" => pending_count(index) = 0]_vars

\* C40: a limit that run() hands to the pipeline is strictly positive, and
\* the consumer never panics.
C40_LimitIsPositive ==
    /\ (pc = "running" /\ config.bw_limit.present) => config.bw_limit.value > 0
    /\ cpc # "panicked"

====
